---------------------------- MODULE Spec2Model ----------------------------
(***************************************************************************)
(* The calculator's parser: the token stream produced by the tokenizer is  *)
(* folded by parse / parse_tokens (src/src/parser.rs) into one Node, using *)
(* one ast::Builder (src/src/parser/ast.rs) per parenthesis nesting level. *)
(***************************************************************************)
EXTENDS Integers, Sequences, FiniteSets

(***************************************************************************)
(* Bounds of the model.                                                    *)
(***************************************************************************)
\* Longest input over the full token alphabet.
MaxLen == 4
\* Longest well-formed expression (and its prefixes) given as input.
MaxExprLen == 7

\* Most calls made on a Builder that is driven on its own.
MaxCalls == 6

\* Decimal::MAX, and -MaxDecimal is Decimal::MIN: the range of Decimal scaled
\* down, so that sums, differences, products and quotients leave it.
MaxDecimal == 3

\* Longest line handed to tokenize, and most whitespace characters added to it.
MaxInput == 3
MaxPad == 1

\* The Decimal values literals take; the parser never inspects a value.
Values == {1, 2}

(***************************************************************************)
(* engine::Node and engine::Expr.                                          *)
(***************************************************************************)
Value(d) == [tag |-> "Value", v |-> d]
Neg(node) == [tag |-> "Neg", node |-> node]
Add(lhs, rhs) == [tag |-> "Add", lhs |-> lhs, rhs |-> rhs]
Sub(lhs, rhs) == [tag |-> "Sub", lhs |-> lhs, rhs |-> rhs]
Mul(lhs, rhs) == [tag |-> "Mul", lhs |-> lhs, rhs |-> rhs]
Div(lhs, rhs) == [tag |-> "Div", lhs |-> lhs, rhs |-> rhs]

(***************************************************************************)
(* tokenizer::Operator and tokenizer::Token; an item of the token iterator *)
(* is Result<Token, rust_decimal::Error>, ValueError being its Err.        *)
(***************************************************************************)
Operator == {"Add", "Sub", "Mul", "Div"}
TokenValue(d) == [tok |-> "Value", value |-> d]
TokenOperator(op) == [tok |-> "Operator", op |-> op]
GroupStart == [tok |-> "GroupStart"]
GroupEnd == [tok |-> "GroupEnd"]
ValueError == [tok |-> "ValueError"]
Token == {TokenValue(d) : d \in Values} \cup {TokenOperator(op) : op \in Operator}
            \cup {GroupStart, GroupEnd}
Item == Token \cup {ValueError}

(***************************************************************************)
(* parser::Error, and the outcomes of a call.                              *)
(***************************************************************************)
ErrValue == [e |-> "Value"]
UninitializedGroup == [e |-> "UninitializedGroup"]
UnterminatedGroup == [e |-> "UnterminatedGroup"]
UnexpectedOperator(op) == [e |-> "UnexpectedOperator", op |-> op]
UnexpectedNode(node) == [e |-> "UnexpectedNode", node |-> node]
Empty == [e |-> "Empty"]
LeftoverElements == [e |-> "LeftoverElements"]

Ok(node) == [kind |-> "Ok", node |-> node]
Err(error) == [kind |-> "Err", err |-> error]
\* unreachable!() panics; main has no handler, so the process ends.
Panic == [kind |-> "Panic"]
None == [kind |-> "None"]

(***************************************************************************)
(* ast::Element and ast::Builder.  A builder is its buffer; add_node and   *)
(* add_operator return the buffer they leave and the Result of the call.   *)
(***************************************************************************)
ElementNode(node) == [el |-> "Node", node |-> node]
ElementOperator(op) == [el |-> "Operator", op |-> op]

pop_back(buffer) == SubSeq(buffer, 1, Len(buffer) - 1)
pop_front(buffer) == SubSeq(buffer, 2, Len(buffer))

Done(buffer) == [buffer |-> buffer, res |-> [kind |-> "Ok"]]
Fail(buffer, error) == [buffer |-> buffer, res |-> Err(error)]
Abort(buffer) == [buffer |-> buffer, res |-> Panic]

RECURSIVE add_node(_, _)
\* add_node forgetting the negation of a leading unary minus.
add_node_unnegated(buffer, node) ==
    LET n == Len(buffer) IN
    CASE n = 0 -> Done(Append(buffer, ElementNode(node)))
      [] n = 1 ->
            IF buffer[1] = ElementOperator("Sub")
            THEN add_node(pop_back(buffer), node)
            ELSE Fail(buffer, LeftoverElements)
      [] OTHER ->
            LET before == buffer[n - 1]
                last == buffer[n]
                popped == pop_back(buffer)
            IN  IF before.el = "Operator" /\ last = ElementOperator("Sub")
                THEN add_node(popped, Neg(node))
                ELSE IF before.el = "Node" /\ last.el = "Operator"
                THEN CASE last.op = "Mul" ->
                            IF popped[Len(popped)].el = "Node"
                            THEN add_node(pop_back(popped),
                                          Mul(popped[Len(popped)].node, node))
                            ELSE Abort(pop_back(popped))
                       [] last.op = "Div" ->
                            IF popped[Len(popped)].el = "Node"
                            THEN add_node(pop_back(popped),
                                          Div(popped[Len(popped)].node, node))
                            ELSE Abort(pop_back(popped))
                       [] OTHER -> Done(Append(buffer, ElementNode(node)))
                ELSE Fail(buffer, UnexpectedNode(node))

\* add_node deferring a multiplication or division as it defers an addition.
add_node_deferring(buffer, node) ==
    LET n == Len(buffer) IN
    CASE n = 0 -> Done(Append(buffer, ElementNode(node)))
      [] n = 1 ->
            IF buffer[1] = ElementOperator("Sub")
            THEN add_node(pop_back(buffer), Neg(node))
            ELSE Fail(buffer, LeftoverElements)
      [] OTHER ->
            LET before == buffer[n - 1]
                last == buffer[n]
            IN  IF before.el = "Operator" /\ last = ElementOperator("Sub")
                THEN add_node(pop_back(buffer), Neg(node))
                ELSE IF before.el = "Node" /\ last.el = "Operator"
                THEN Done(Append(buffer, ElementNode(node)))
                ELSE Fail(buffer, UnexpectedNode(node))

add_node(buffer, node) ==
    LET n == Len(buffer) IN
    CASE n = 0 -> Done(Append(buffer, ElementNode(node)))
      [] n = 1 ->
            IF buffer[1] = ElementOperator("Sub")
            THEN add_node(pop_back(buffer), Neg(node))
            ELSE Fail(buffer, LeftoverElements)
      [] OTHER ->
            LET before == buffer[n - 1]
                last == buffer[n]
                popped == pop_back(buffer)
            IN  IF before.el = "Operator" /\ last = ElementOperator("Sub")
                THEN add_node(popped, Neg(node))
                ELSE IF before.el = "Node" /\ last.el = "Operator"
                THEN CASE last.op = "Mul" ->
                            IF popped[Len(popped)].el = "Node"
                            THEN add_node(pop_back(popped),
                                          Mul(popped[Len(popped)].node, node))
                            ELSE Abort(pop_back(popped))
                       [] last.op = "Div" ->
                            IF popped[Len(popped)].el = "Node"
                            THEN add_node(pop_back(popped),
                                          Div(popped[Len(popped)].node, node))
                            ELSE Abort(pop_back(popped))
                       [] OTHER -> Done(Append(buffer, ElementNode(node)))
                ELSE Fail(buffer, UnexpectedNode(node))

\* add_operator taking any operator in any buffer state.
add_operator_unchecked(buffer, op) ==
    Done(Append(buffer, ElementOperator(op)))

add_operator(buffer, op) ==
    IF op # "Sub" /\ (buffer = <<>> \/ buffer[Len(buffer)].el = "Operator")
    THEN Fail(buffer, UnexpectedOperator(op))
    ELSE Done(Append(buffer, ElementOperator(op)))

\* The while-let loop of build: the elements left, the node folded so far
\* and the operator seen last.
RECURSIVE build_fold(_, _, _)
\* build's loop with the operands of a subtraction taken in the wrong order.
build_fold_swapped(buffer, prev_node, prev_operator) ==
    IF buffer = <<>> THEN Ok(prev_node)
    ELSE LET element == buffer[1] IN
         IF element.el = "Node"
         THEN CASE prev_operator = "Add" ->
                        build_fold(pop_front(buffer), Add(prev_node, element.node),
                                   prev_operator)
                [] prev_operator = "Sub" ->
                        build_fold(pop_front(buffer), Sub(element.node, prev_node),
                                   prev_operator)
                [] OTHER -> Panic
         ELSE build_fold(pop_front(buffer), prev_node, element.op)

build_fold(buffer, prev_node, prev_operator) ==
    IF buffer = <<>> THEN Ok(prev_node)
    ELSE LET element == buffer[1] IN
         IF element.el = "Node"
         THEN CASE prev_operator = "Add" ->
                        build_fold(pop_front(buffer), Add(prev_node, element.node),
                                   prev_operator)
                [] prev_operator = "Sub" ->
                        build_fold(pop_front(buffer), Sub(prev_node, element.node),
                                   prev_operator)
                [] OTHER -> Panic
         ELSE build_fold(pop_front(buffer), prev_node, element.op)

\* build reporting an empty buffer as leftover elements.
build_empty_as_leftover(buffer) ==
    CASE Len(buffer) = 0 -> Err(LeftoverElements)
      [] Len(buffer) = 1 ->
            IF buffer[1].el = "Node" THEN Ok(buffer[1].node)
            ELSE Err(UnexpectedOperator(buffer[1].op))
      [] Len(buffer) = 2 -> Err(LeftoverElements)
      [] OTHER ->
            IF buffer[1].el # "Node" THEN Panic
            ELSE IF buffer[2].el # "Operator" THEN Panic
            ELSE build_fold(pop_front(pop_front(buffer)), buffer[1].node, buffer[2].op)

build(buffer) ==
    CASE Len(buffer) = 0 -> Err(Empty)
      [] Len(buffer) = 1 ->
            IF buffer[1].el = "Node" THEN Ok(buffer[1].node)
            ELSE Err(UnexpectedOperator(buffer[1].op))
      [] Len(buffer) = 2 -> Err(LeftoverElements)
      [] OTHER ->
            IF buffer[1].el # "Node" THEN Panic
            ELSE IF buffer[2].el # "Operator" THEN Panic
            ELSE build_fold(pop_front(pop_front(buffer)), buffer[1].node, buffer[2].op)

(***************************************************************************)
(* parser::parse and parser::parse_tokens as the code writes them: a       *)
(* recursion over the shared token iterator.  chain is the iterator's      *)
(* content, i the index of its next item.                                  *)
(***************************************************************************)
chain(input) == Append(input, GroupEnd)

\* One activation of parse_tokens from item i on, with its builder's buffer;
\* returns the Result and the index of the iterator's next item.
RECURSIVE parse_tokens(_, _, _)
parse_tokens(items, i, buffer) ==
    IF i > Len(items) THEN [res |-> Err(UnterminatedGroup), next |-> i]
    ELSE LET token == items[i] IN
         CASE token.tok = "ValueError" -> [res |-> Err(ErrValue), next |-> i + 1]
           [] token.tok = "Value" ->
                LET r == add_node(buffer, Value(token.value)) IN
                IF r.res.kind = "Ok" THEN parse_tokens(items, i + 1, r.buffer)
                ELSE [res |-> r.res, next |-> i + 1]
           [] token.tok = "Operator" ->
                LET r == add_operator(buffer, token.op) IN
                IF r.res.kind = "Ok" THEN parse_tokens(items, i + 1, r.buffer)
                ELSE [res |-> r.res, next |-> i + 1]
           [] token.tok = "GroupStart" ->
                LET group == parse_tokens(items, i + 1, <<>>) IN
                IF group.res.kind # "Ok" THEN group
                ELSE LET r == add_node(buffer, group.res.node) IN
                     IF r.res.kind = "Ok" THEN parse_tokens(items, group.next, r.buffer)
                     ELSE [res |-> r.res, next |-> group.next]
           [] OTHER -> [res |-> build(buffer), next |-> i + 1]

parse(input) ==
    LET root == parse_tokens(chain(input), 1, <<>>) IN
    IF root.res.kind # "Ok" THEN root.res
    ELSE IF root.next > Len(chain(input)) THEN root.res
    ELSE Err(UninitializedGroup)

(***************************************************************************)
(* The inputs: every item sequence of at most MaxLen items, every prefix   *)
(* of a well-formed expression of at most MaxExprLen tokens, and every     *)
(* well-formed expression followed by one or two arbitrary items, where    *)
(* well-formed is: operand (binary-operator operand)*, an operand being a  *)
(* literal, a parenthesised well-formed expression, or '-' operand.        *)
(***************************************************************************)
RECURSIVE OperandOfLen(_), WellFormedOfLen(_)
OperandOfLen(n) ==
    IF n = 1 THEN {<<TokenValue(d)>> : d \in Values}
    ELSE {<<TokenOperator("Sub")>> \o u : u \in OperandOfLen(n - 1)}
            \cup (IF n >= 3
                  THEN {<<GroupStart>> \o e \o <<GroupEnd>> : e \in WellFormedOfLen(n - 2)}
                  ELSE {})

WellFormedOfLen(n) ==
    OperandOfLen(n)
        \cup UNION {{e \o <<TokenOperator(op)>> \o u :
                        e \in WellFormedOfLen(k), op \in Operator,
                        u \in OperandOfLen(n - 1 - k)} : k \in 1..(n - 2)}

AllSequences == UNION {[1..k -> Item] : k \in 0..MaxLen}
WellFormedInputs == UNION {WellFormedOfLen(n) : n \in 1..MaxExprLen}
Prefixes(S) == UNION {{SubSeq(s, 1, k) : k \in 0..Len(s)} : s \in S}
\* A well-formed expression followed by at most two arbitrary items.
Tails == {<<>>} \cup {<<a>> : a \in Item} \cup {<<a, b>> : a, b \in Item}
Continued == {e \o t : e \in UNION {WellFormedOfLen(n) : n \in 1..(MaxExprLen - 2)},
                       t \in Tails}
Inputs == AllSequences \cup Prefixes(WellFormedInputs) \cup Continued

(***************************************************************************)
(* The parse of one input line, step by step.                              *)
(*   tokens     the items tokenize yields for the line                     *)
(*   pos        index, in chain(tokens), of the iterator's next item       *)
(*   stack      the buffers of the live parse_tokens activations, the      *)
(*              innermost last                                             *)
(*   pc         "parse_tokens": in the loop of the innermost activation;   *)
(*              "parse": the root activation has returned Ok to parse;     *)
(*              "done": parse has returned, or the process has panicked    *)
(*   root_node  parse's root_node once the root activation has returned    *)
(*   result     what parse returned                                        *)
(***************************************************************************)
VARIABLES tokens, pos, stack, pc, root_node, result

(***************************************************************************)
(* The state of the components that are exercised on their own, further    *)
(* down: a Builder driven by arbitrary calls, the evaluation of a tree,    *)
(* and the tokenizer on a line of text.                                    *)
(*   self_buffer  the buffer of the Builder                                *)
(*   call         the last call made on the Builder, and what it returned  *)
(*   calls        the number of calls made on the Builder                  *)
(*   expr         the tree handed to Decimal::try_from                     *)
(*   outcome      what Decimal::try_from returned                          *)
(*   text         the line handed to tokenize                              *)
(*   yielded      the items the iterator of tokenize has yielded           *)
(***************************************************************************)
VARIABLES self_buffer, call, calls, expr, outcome, text, yielded

parserVars == <<tokens, pos, stack, pc, root_node, result>>
builderVars == <<self_buffer, call, calls>>
engineVars == <<expr, outcome>>
tokenizerVars == <<text, yielded>>
vars == <<parserVars, builderVars, engineVars, tokenizerVars>>

\* The components that take no part in a step.
BuilderIdle == self_buffer = <<>> /\ call = None /\ calls = 0
EngineIdle == expr = None /\ outcome = None
TokenizerIdle == text = <<>> /\ yielded = None
ParserIdle ==
    /\ tokens = <<>>
    /\ pos = 1
    /\ stack = <<>>
    /\ pc = "idle"
    /\ root_node = None
    /\ result = None

items == chain(tokens)
depth == Len(stack)
builder == stack[depth]

Init ==
    /\ tokens \in Inputs
    /\ pos = 1
    /\ stack = << <<>> >>
    /\ pc = "parse_tokens"
    /\ root_node = None
    /\ result = None
    /\ BuilderIdle
    /\ EngineIdle
    /\ TokenizerIdle

\* An Err leaves parse through the ? of every activation, dropping their
\* builders; a panic ends the process.
Return(res) ==
    /\ pc' = "done"
    /\ stack' = <<>>
    /\ result' = res
    /\ UNCHANGED root_node

\* The innermost activation goes round its loop with its builder's buffer
\* replaced.
Continue(buffer) ==
    /\ stack' = [stack EXCEPT ![depth] = buffer]
    /\ UNCHANGED <<pc, root_node, result>>

Reading(kind) ==
    /\ pc = "parse_tokens"
    /\ pos <= Len(items)
    /\ items[pos].tok = kind

\* Token::Value(value) => builder.add_node(Node::Value(value))?
OnValue ==
    /\ Reading("Value")
    /\ UNCHANGED <<builderVars, engineVars, tokenizerVars>>
    /\ pos' = pos + 1
    /\ UNCHANGED tokens
    /\ LET r == add_node(builder, Value(items[pos].value)) IN
       IF r.res.kind = "Ok" THEN Continue(r.buffer) ELSE Return(r.res)

\* Token::Operator(operator) => builder.add_operator(operator)?
OnOperator ==
    /\ Reading("Operator")
    /\ UNCHANGED <<builderVars, engineVars, tokenizerVars>>
    /\ pos' = pos + 1
    /\ UNCHANGED tokens
    /\ LET r == add_operator(builder, items[pos].op) IN
       IF r.res.kind = "Ok" THEN Continue(r.buffer) ELSE Return(r.res)

\* A group that starts from the enclosing builder's buffer, not a fresh one.
OnGroupStartSharedBuffer ==
    /\ Reading("GroupStart")
    /\ UNCHANGED <<builderVars, engineVars, tokenizerVars>>
    /\ pos' = pos + 1
    /\ stack' = Append(stack, builder)
    /\ UNCHANGED <<tokens, pc, root_node, result>>

\* An opening parenthesis read and ignored: no activation for the group.
OnGroupStartIgnored ==
    /\ Reading("GroupStart")
    /\ UNCHANGED <<builderVars, engineVars, tokenizerVars>>
    /\ pos' = pos + 1
    /\ UNCHANGED <<tokens, stack, pc, root_node, result>>

\* Token::GroupStart => parse_tokens(tokens): a new activation, a new builder.
OnGroupStart ==
    /\ Reading("GroupStart")
    /\ UNCHANGED <<builderVars, engineVars, tokenizerVars>>
    /\ pos' = pos + 1
    /\ stack' = Append(stack, <<>>)
    /\ UNCHANGED <<tokens, pc, root_node, result>>

\* Token::GroupEnd => the innermost activation builds and returns: to parse
\* when it is the root, else to the add_node(..)? of the enclosing activation.
OnGroupEnd ==
    /\ Reading("GroupEnd")
    /\ UNCHANGED <<builderVars, engineVars, tokenizerVars>>
    /\ pos' = pos + 1
    /\ UNCHANGED tokens
    /\ LET built == build(builder) IN
       IF built.kind # "Ok" THEN Return(built)
       ELSE IF depth = 1
       THEN /\ pc' = "parse"
            /\ stack' = <<>>
            /\ root_node' = built
            /\ UNCHANGED result
       ELSE LET r == add_node(stack[depth - 1], built.node) IN
            IF r.res.kind = "Ok"
            THEN /\ stack' = [pop_back(stack) EXCEPT ![depth - 1] = r.buffer]
                 /\ UNCHANGED <<pc, root_node, result>>
            ELSE Return(r.res)

\* token.map_err(Error::Value)?
OnValueError ==
    /\ Reading("ValueError")
    /\ UNCHANGED <<builderVars, engineVars, tokenizerVars>>
    /\ pos' = pos + 1
    /\ UNCHANGED tokens
    /\ Return(Err(ErrValue))

\* The end of the input taken for the end of the group: is_terminated ignored.
OnExhaustedBuilds ==
    /\ pc = "parse_tokens"
    /\ UNCHANGED <<builderVars, engineVars, tokenizerVars>>
    /\ pos > Len(items)
    /\ UNCHANGED <<tokens, pos>>
    /\ Return(build(builder))

\* tokens.next() is None: the loop ends with is_terminated false.
OnExhausted ==
    /\ pc = "parse_tokens"
    /\ UNCHANGED <<builderVars, engineVars, tokenizerVars>>
    /\ pos > Len(items)
    /\ UNCHANGED <<tokens, pos>>
    /\ Return(Err(UnterminatedGroup))

\* parse returning root_node without looking for items left over.
ParseCheckSkipped ==
    /\ pc = "parse"
    /\ UNCHANGED <<builderVars, engineVars, tokenizerVars>>
    /\ pc' = "done"
    /\ result' = root_node
    /\ UNCHANGED <<tokens, pos, stack, root_node>>

\* parse: if tokens.next().is_none() { Ok(root_node) } else { Err(UninitializedGroup) }
ParseCheck ==
    /\ pc = "parse"
    /\ UNCHANGED <<builderVars, engineVars, tokenizerVars>>
    /\ pc' = "done"
    /\ UNCHANGED <<tokens, stack, root_node>>
    /\ IF pos > Len(items)
       THEN /\ result' = root_node
            /\ UNCHANGED pos
       ELSE /\ result' = Err(UninitializedGroup)
            /\ pos' = pos + 1

Next ==
    \/ OnValue
    \/ OnOperator
    \/ OnGroupStart
    \/ OnGroupEnd
    \/ OnValueError
    \/ OnExhausted
    \/ ParseCheck

Spec == Init /\ [][Next]_vars

\* The step-by-step parse returns what the recursion returns.
StepwiseIsParse == pc = "done" => result = parse(tokens)

(***************************************************************************)
(* The grammar of spec section 6, read by recursive descent, as the        *)
(* reference the parser is compared with:                                  *)
(*     expression := term (('+'|'-') term)*                                *)
(*     term       := factor (('*'|'/') factor)*                            *)
(*     factor     := '-' factor | literal | '(' expression ')'             *)
(* Each operator returns whether it read one, the tree, and the index of   *)
(* the token after it.                                                     *)
(***************************************************************************)
NotRead == [ok |-> FALSE]
Read(node, next) == [ok |-> TRUE, node |-> node, next |-> next]
Binary(op, lhs, rhs) == [tag |-> op, lhs |-> lhs, rhs |-> rhs]

RECURSIVE RefFactor(_, _), RefTerm(_, _), RefTermRest(_, _, _)
RECURSIVE RefExpression(_, _), RefExpressionRest(_, _, _)
RefFactor(s, i) ==
    IF i > Len(s) THEN NotRead
    ELSE CASE s[i] = TokenOperator("Sub") ->
                LET r == RefFactor(s, i + 1) IN
                IF r.ok THEN Read(Neg(r.node), r.next) ELSE NotRead
           [] s[i].tok = "Value" -> Read(Value(s[i].value), i + 1)
           [] s[i] = GroupStart ->
                LET r == RefExpression(s, i + 1) IN
                IF r.ok /\ r.next <= Len(s) /\ s[r.next] = GroupEnd
                THEN Read(r.node, r.next + 1) ELSE NotRead
           [] OTHER -> NotRead

RefTermRest(s, lhs, i) ==
    IF i <= Len(s) /\ s[i] \in {TokenOperator("Mul"), TokenOperator("Div")}
    THEN LET r == RefFactor(s, i + 1) IN
         IF r.ok THEN RefTermRest(s, Binary(s[i].op, lhs, r.node), r.next) ELSE NotRead
    ELSE Read(lhs, i)

RefTerm(s, i) ==
    LET r == RefFactor(s, i) IN
    IF r.ok THEN RefTermRest(s, r.node, r.next) ELSE NotRead

RefExpressionRest(s, lhs, i) ==
    IF i <= Len(s) /\ s[i] \in {TokenOperator("Add"), TokenOperator("Sub")}
    THEN LET r == RefTerm(s, i + 1) IN
         IF r.ok THEN RefExpressionRest(s, Binary(s[i].op, lhs, r.node), r.next)
         ELSE NotRead
    ELSE Read(lhs, i)

RefExpression(s, i) ==
    LET r == RefTerm(s, i) IN
    IF r.ok THEN RefExpressionRest(s, r.node, r.next) ELSE NotRead

\* s is, as a whole, one expression of the grammar; RefTree(s) is its tree.
WellFormed(s) == LET r == RefExpression(s, 1) IN r.ok /\ r.next = Len(s) + 1
RefTree(s) == RefExpression(s, 1).node

\* operand (binary-operator operand)*, without parentheses.
Flat(s) ==
    /\ Len(s) % 2 = 1
    /\ \A i \in 1..Len(s) : s[i].tok = (IF i % 2 = 1 THEN "Value" ELSE "Operator")

(***************************************************************************)
(* C1.  For every parenthesis-free token sequence operand (binary-operator *)
(* operand)*, parse returns the tree of the two-level grammar: Mul and Div *)
(* bind tighter than Add and Sub, and operators of equal precedence        *)
(* associate to the left.                                                  *)
(***************************************************************************)
C1_FlatPrecedence ==
    (pc = "done" /\ Flat(tokens)) => result = Ok(RefTree(tokens))

\* 1 - 2 * 1 - 2 has been parsed to Sub(Sub(1, Mul(2, 1)), 2).
C1_Witness ==
    /\ pc = "done"
    /\ tokens = <<TokenValue(1), TokenOperator("Sub"), TokenValue(2), TokenOperator("Mul"),
                  TokenValue(1), TokenOperator("Sub"), TokenValue(2)>>
    /\ result = Ok(Sub(Sub(Value(1), Mul(Value(2), Value(1))), Value(2)))

(***************************************************************************)
(* C2.  A parenthesised group is handled like a single literal operand of  *)
(* the enclosing expression: for every GroupStart of the input whose       *)
(* matching GroupEnd (the one that closes the most recently opened group)  *)
(* exists and whose content E is well-formed, parsing E on its own gives a *)
(* node, and the parse of the whole input is the parse of the input with   *)
(* the group replaced by a literal, that literal replaced by E's node.     *)
(***************************************************************************)
\* The index of the GroupEnd matching a GroupStart read before j, at nesting d;
\* 0 when there is none.
RECURSIVE MatchingEnd(_, _, _)
MatchingEnd(s, j, d) ==
    IF j > Len(s) THEN 0
    ELSE CASE s[j] = GroupStart -> MatchingEnd(s, j + 1, d + 1)
           [] s[j] = GroupEnd -> IF d = 1 THEN j ELSE MatchingEnd(s, j + 1, d - 1)
           [] OTHER -> MatchingEnd(s, j + 1, d)

\* A literal no input holds, standing for the group.
Hole == [tag |-> "Value", v |-> 0]
HoleToken == [tok |-> "Value", value |-> 0]

RECURSIVE Fill(_, _)
Fill(node, by) ==
    CASE node.tag = "Value" -> IF node.v \in Values THEN node ELSE by
      [] node.tag = "Neg" -> Neg(Fill(node.node, by))
      [] OTHER -> Binary(node.tag, Fill(node.lhs, by), Fill(node.rhs, by))

FillResult(res, by) ==
    CASE res.kind = "Ok" -> Ok(Fill(res.node, by))
      [] res.kind = "Err" /\ res.err.e = "UnexpectedNode" ->
            Err(UnexpectedNode(Fill(res.err.node, by)))
      [] OTHER -> res

GroupAsLiteral(s, i) ==
    LET j == MatchingEnd(s, i + 1, 1)
        E == SubSeq(s, i + 1, j - 1)
        context == SubSeq(s, 1, i - 1) \o <<HoleToken>> \o SubSeq(s, j + 1, Len(s))
    IN  (j # 0 /\ WellFormed(E)) =>
            /\ parse(E).kind = "Ok"
            /\ result = FillResult(parse(context), parse(E).node)

C2_GroupIsOperand ==
    pc = "done" =>
        \A i \in 1..Len(tokens) : tokens[i] = GroupStart => GroupAsLiteral(tokens, i)

\* (1 + 2) * 1 has been parsed to Mul(Add(1, 2), 1).
C2_Witness ==
    /\ pc = "done"
    /\ tokens = <<GroupStart, TokenValue(1), TokenOperator("Add"), TokenValue(2), GroupEnd,
                  TokenOperator("Mul"), TokenValue(1)>>
    /\ result = Ok(Mul(Add(Value(1), Value(2)), Value(1)))

(***************************************************************************)
(* C3.  A Sub token at the start of the expression or of a group, or       *)
(* directly after another operator, binds as negation of the operand that  *)
(* follows: the tree of a successful parse holds one Neg for each such     *)
(* token that an operand follows (after further such tokens only), no Sub  *)
(* expression comes from them, and on a well-formed input the tree is the  *)
(* grammar's, where k such tokens wrap the operand alone in k Neg nodes    *)
(* before any Mul, Div, Add or Sub applies.                                *)
(***************************************************************************)
RECURSIVE CountTag(_, _)
CountTag(node, tag) ==
    (IF node.tag = tag THEN 1 ELSE 0)
        + (CASE node.tag = "Value" -> 0
             [] node.tag = "Neg" -> CountTag(node.node, tag)
             [] OTHER -> CountTag(node.lhs, tag) + CountTag(node.rhs, tag))

UnaryPosition(s, i) ==
    /\ s[i] = TokenOperator("Sub")
    /\ i = 1 \/ s[i - 1].tok \in {"Operator", "GroupStart"}

RECURSIVE OperandFollows(_, _)
OperandFollows(s, i) ==
    /\ i < Len(s)
    /\ \/ s[i + 1].tok \in {"Value", "GroupStart"}
       \/ s[i + 1] = TokenOperator("Sub") /\ OperandFollows(s, i + 1)

Negations(s) == {i \in 1..Len(s) : UnaryPosition(s, i) /\ OperandFollows(s, i)}
Subtractions(s) == {i \in 1..Len(s) : s[i] = TokenOperator("Sub") /\ ~UnaryPosition(s, i)}

C3_UnaryMinus ==
    pc = "done" =>
        /\ result.kind = "Ok" =>
            /\ CountTag(result.node, "Neg") = Cardinality(Negations(tokens))
            /\ CountTag(result.node, "Sub") <= Cardinality(Subtractions(tokens))
        /\ (WellFormed(tokens) /\ Negations(tokens) # {}) =>
            result = Ok(RefTree(tokens))

\* 1 * - - 2 - 1 has been parsed to Sub(Mul(1, Neg(Neg(2))), 1).
C3_Witness ==
    /\ pc = "done"
    /\ tokens = <<TokenValue(1), TokenOperator("Mul"), TokenOperator("Sub"),
                  TokenOperator("Sub"), TokenValue(2), TokenOperator("Sub"), TokenValue(1)>>
    /\ result = Ok(Sub(Mul(Value(1), Neg(Neg(Value(2)))), Value(1)))

(***************************************************************************)
(* C4.  For every token sequence parse returns normally, with a Node or an *)
(* Error: no unreachable!() of Builder::add_node or Builder::build is      *)
(* executed.                                                               *)
(***************************************************************************)
C4_NoUnreachable ==
    pc = "done" => result.kind \in {"Ok", "Err"}

\* What the claim rests on: at build, a buffer of three or more elements
\* starts Node, Operator, and no Node in it follows a Mul or Div.
C4_BufferAtBuild ==
    (Reading("GroupEnd") /\ Len(builder) >= 3) =>
        /\ builder[1].el = "Node"
        /\ builder[2].el = "Operator"
        /\ \A k \in 2..Len(builder) :
                builder[k].el = "Node" =>
                    builder[k - 1] \notin {ElementOperator("Mul"), ElementOperator("Div")}

(***************************************************************************)
(* C5.  An operand (a literal, or a group that has built its node) that    *)
(* arrives when the buffer of the builder it is added to ends in a Node is *)
(* rejected with UnexpectedNode carrying the incoming node, also when that *)
(* buffer holds exactly one Node.                                          *)
(***************************************************************************)
EndsInNode(buffer) == buffer # <<>> /\ buffer[Len(buffer)].el = "Node"

C5_AdjacentOperands ==
    [][ /\ (Reading("Value") /\ EndsInNode(builder)) =>
                result' = Err(UnexpectedNode(Value(items[pos].value)))
        /\ (Reading("GroupEnd") /\ depth > 1 /\ build(builder).kind = "Ok"
                /\ EndsInNode(stack[depth - 1])) =>
                result' = Err(UnexpectedNode(build(builder).node))
      ]_vars

(***************************************************************************)
(* C6.  An expression whose last token is an operator with no operand      *)
(* after it is never accepted: when the input is a well-formed expression  *)
(* followed by an operator, and then by unary minus signs only, parse      *)
(* fails with LeftoverElements.                                            *)
(***************************************************************************)
DanglingOperator(s) ==
    \E k \in 1..(Len(s) - 1) :
        /\ WellFormed(SubSeq(s, 1, k))
        /\ s[k + 1].tok = "Operator"
        /\ \A j \in (k + 2)..Len(s) : s[j] = TokenOperator("Sub")

C6_DanglingOperator ==
    (pc = "done" /\ DanglingOperator(tokens)) => result = Err(LeftoverElements)

(***************************************************************************)
(* C7.  An input whose first token is a GroupEnd makes parse fail with     *)
(* UninitializedGroup.                                                     *)
(***************************************************************************)
C7_LeadingGroupEnd ==
    (pc = "done" /\ tokens # <<>> /\ tokens[1] = GroupEnd) =>
        result = Err(UninitializedGroup)

(***************************************************************************)
(* C8.  If a prefix of the input is a complete well-formed expression and  *)
(* the next token is a GroupEnd, parse fails with UninitializedGroup,      *)
(* whatever follows that GroupEnd.                                         *)
(***************************************************************************)
TrailingGroupEnd(s) ==
    \E k \in 1..(Len(s) - 1) : WellFormed(SubSeq(s, 1, k)) /\ s[k + 1] = GroupEnd

C8_TrailingGroupEnd ==
    (pc = "done" /\ TrailingGroupEnd(tokens)) => result = Err(UninitializedGroup)

\* (1 + 2) ) followed by an item that is no token: UninitializedGroup.
C8_Witness ==
    /\ pc = "done"
    /\ tokens = <<GroupStart, TokenValue(1), TokenOperator("Add"), TokenValue(2), GroupEnd,
                  GroupEnd, ValueError>>
    /\ result = Err(UninitializedGroup)

(***************************************************************************)
(* C9.  If the input ends with k >= 1 GroupStart tokens unmatched, and     *)
(* closing them all would make it a well-formed expression, parse fails    *)
(* with UnterminatedGroup; the GroupEnd that parse appends closes only the *)
(* innermost open group: once it is read, k activations are still live.    *)
(***************************************************************************)
\* The number of groups open after s; -1 if a GroupEnd closes none.
RECURSIVE OpenAfter(_, _, _)
OpenAfter(s, j, d) ==
    IF j > Len(s) THEN d
    ELSE CASE s[j] = GroupStart -> OpenAfter(s, j + 1, d + 1)
           [] s[j] = GroupEnd -> IF d = 0 THEN -1 ELSE OpenAfter(s, j + 1, d - 1)
           [] OTHER -> OpenAfter(s, j + 1, d)
OpenGroups(s) == OpenAfter(s, 1, 0)

Unterminated(s) ==
    /\ OpenGroups(s) >= 1
    /\ WellFormed(s \o [k \in 1..OpenGroups(s) |-> GroupEnd])

C9_UnterminatedGroup ==
    Unterminated(tokens) =>
        /\ pc = "done" => result = Err(UnterminatedGroup)
        /\ (pc = "parse_tokens" /\ pos = Len(items) + 1) => depth = OpenGroups(tokens)

\* ( 1 + ( 2 has failed with UnterminatedGroup.
C9_Witness ==
    /\ pc = "done"
    /\ tokens = <<GroupStart, TokenValue(1), TokenOperator("Add"), GroupStart, TokenValue(2)>>
    /\ result = Err(UnterminatedGroup)

(***************************************************************************)
(* C10.  An expression with no tokens fails with Empty: the parse of an    *)
(* input without tokens returns Empty, and so does a parse that has read a *)
(* GroupStart and, next, the GroupEnd closing it (no earlier token having  *)
(* ended the parse).                                                       *)
(***************************************************************************)
C10_Empty ==
    pc = "done" =>
        /\ tokens = <<>> => result = Err(Empty)
        /\ (pos >= 3 /\ items[pos - 2] = GroupStart /\ items[pos - 1] = GroupEnd) =>
                result = Err(Empty)

\* 1 + ( ) has failed with Empty at the ')' of the input.
C10_Witness ==
    /\ pc = "done"
    /\ tokens = <<TokenValue(1), TokenOperator("Add"), GroupStart, GroupEnd>>
    /\ pos = 5
    /\ result = Err(Empty)

(***************************************************************************)
(* C20.  No operand is lost, duplicated or reordered: when parse succeeds, *)
(* the Value leaves of the returned tree, read left to right, are the      *)
(* Value tokens of the input in input order, each once.                    *)
(***************************************************************************)
RECURSIVE Leaves(_)
Leaves(node) ==
    CASE node.tag = "Value" -> <<node.v>>
      [] node.tag = "Neg" -> Leaves(node.node)
      [] OTHER -> Leaves(node.lhs) \o Leaves(node.rhs)

RECURSIVE ValuesOf(_)
ValuesOf(s) ==
    IF s = <<>> THEN <<>>
    ELSE (IF s[1].tok = "Value" THEN <<s[1].value>> ELSE <<>>) \o ValuesOf(Tail(s))

C20_OperandsKept ==
    (pc = "done" /\ result.kind = "Ok") => Leaves(result.node) = ValuesOf(tokens)

\* 2 - (1) * 2 has been parsed to Sub(2, Mul(1, 2)), with the leaves 2, 1, 2.
C20_Witness ==
    /\ pc = "done"
    /\ tokens = <<TokenValue(2), TokenOperator("Sub"), GroupStart, TokenValue(1), GroupEnd,
                  TokenOperator("Mul"), TokenValue(2)>>
    /\ result = Ok(Sub(Value(2), Mul(Value(1), Value(2))))
    /\ Leaves(result.node) = <<2, 1, 2>>


(***************************************************************************)
(* A Builder on its own, driven by any sequence of calls: ast.rs makes no  *)
(* assumption on its caller.  A call that returns Err leaves the Builder   *)
(* usable; build takes the Builder by value, and a panic ends the process. *)
(***************************************************************************)
Called(name, arg, res) == [name |-> name, arg |-> arg, res |-> res]

BuilderInit ==
    /\ self_buffer = <<>>
    /\ call = Called("new", None, [kind |-> "Ok"])
    /\ calls = 0
    /\ ParserIdle
    /\ EngineIdle
    /\ TokenizerIdle

Usable ==
    /\ calls < MaxCalls
    /\ call.name # "build"
    /\ call.res # Panic

AddNode ==
    /\ Usable
    /\ UNCHANGED <<parserVars, engineVars, tokenizerVars>>
    /\ \E d \in Values :
          LET r == add_node(self_buffer, Value(d)) IN
          /\ self_buffer' = r.buffer
          /\ call' = Called("add_node", Value(d), r.res)
          /\ calls' = calls + 1

AddOperator ==
    /\ Usable
    /\ UNCHANGED <<parserVars, engineVars, tokenizerVars>>
    /\ \E op \in Operator :
          LET r == add_operator(self_buffer, op) IN
          /\ self_buffer' = r.buffer
          /\ call' = Called("add_operator", op, r.res)
          /\ calls' = calls + 1

Build ==
    /\ Usable
    /\ UNCHANGED <<parserVars, engineVars, tokenizerVars>>
    /\ self_buffer' = <<>>
    /\ call' = Called("build", None, build(self_buffer))
    /\ calls' = calls + 1

BuilderNext ==
    \/ AddNode
    \/ AddOperator
    \/ Build

BuilderSpec == BuilderInit /\ [][BuilderNext]_vars

\* C16: add_operator(op) fails with UnexpectedOperator(op) exactly when op is
\* Add, Mul or Div and the buffer is empty or ends in an Operator, and then
\* leaves the buffer as it was; in every other case it returns Ok and the
\* buffer is the old one with op appended.
EndsInOperator(buffer) == buffer # <<>> /\ buffer[Len(buffer)].el = "Operator"

C16_AddOperator ==
    [][(call'.name = "add_operator" /\ calls' = calls + 1) =>
        LET op == call'.arg
            rejected == op \in {"Add", "Mul", "Div"}
                            /\ (self_buffer = <<>> \/ EndsInOperator(self_buffer))
        IN  IF rejected
            THEN call'.res = Err(UnexpectedOperator(op)) /\ self_buffer' = self_buffer
            ELSE call'.res = [kind |-> "Ok"]
                    /\ self_buffer' = Append(self_buffer, ElementOperator(op))]_vars

\* 1 * has been added and a second * was refused, the buffer staying 1 *.
C16_Witness ==
    /\ call = Called("add_operator", "Mul", Err(UnexpectedOperator("Mul")))
    /\ self_buffer = <<ElementNode(Value(1)), ElementOperator("Mul")>>

\* C17: after every successful add_node the buffer has odd length, alternates
\* Node, Operator, ..., Node, and holds only Add and Sub operators; a Mul or
\* Div in the buffer is the one operator added since the last successful
\* add_node, directly after a Node and followed by unary minuses only.
Alternating(buffer) ==
    /\ Len(buffer) % 2 = 1
    /\ \A i \in 1..Len(buffer) :
          IF i % 2 = 1 THEN buffer[i].el = "Node"
          ELSE buffer[i].el = "Operator" /\ buffer[i].op \in {"Add", "Sub"}

Multiplicative(element) == element.el = "Operator" /\ element.op \in {"Mul", "Div"}

C17_MultiplicativeNeverWaits ==
    /\ (call.name = "add_node" /\ call.res.kind = "Ok") => Alternating(self_buffer)
    /\ \A i \in 1..Len(self_buffer) :
          Multiplicative(self_buffer[i]) =>
             /\ ~(call.name = "add_node" /\ call.res.kind = "Ok")
             /\ i > 1
             /\ Alternating(SubSeq(self_buffer, 1, i - 1))
             /\ \A j \in (i + 1)..Len(self_buffer) :
                   self_buffer[j] = ElementOperator("Sub")
             /\ \A d \in Values :
                   LET r == add_node(self_buffer, Value(d)) IN
                   r.res.kind = "Ok" /\ Alternating(r.buffer)

\* 1 + 2 * - 1 has been added: the buffer is 1 + Mul(2, Neg(1)).
C17_Witness ==
    /\ call = Called("add_node", Value(1), [kind |-> "Ok"])
    /\ self_buffer = <<ElementNode(Value(1)), ElementOperator("Add"),
                       ElementNode(Mul(Value(2), Neg(Value(1))))>>


(***************************************************************************)
(* rust_decimal::Decimal, as far as engine.rs uses it.  A Decimal is an    *)
(* exact fraction n / d in lowest terms, d > 0, within                     *)
(* -MaxDecimal .. MaxDecimal; the checked operations return None when the  *)
(* exact result lies outside that range (and checked_div when the divisor  *)
(* is zero), Some of the exact result otherwise.  The rounding of results  *)
(* that need more than 28 decimal places is not represented.               *)
(***************************************************************************)
Abs(n) == IF n < 0 THEN -n ELSE n

RECURSIVE Gcd(_, _)
Gcd(a, b) == IF b = 0 THEN a ELSE Gcd(b, a % b)

Fraction(n, d) ==
    LET g == Gcd(Abs(n), d) IN [n |-> n \div g, d |-> d \div g]
Decimal(n) == [n |-> n, d |-> 1]
ZERO == Decimal(0)

InRange(a) == -MaxDecimal * a.d <= a.n /\ a.n <= MaxDecimal * a.d
Some(a) == [kind |-> "Some", value |-> a]
Checked(a) == IF InRange(a) THEN Some(a) ELSE None

checked_add(a, b) == Checked(Fraction(a.n * b.d + b.n * a.d, a.d * b.d))
checked_sub(a, b) == Checked(Fraction(a.n * b.d - b.n * a.d, a.d * b.d))
checked_mul(a, b) == Checked(Fraction(a.n * b.n, a.d * b.d))
checked_div(a, b) ==
    IF b.n = 0 THEN None
    ELSE Checked(Fraction((IF b.n < 0 THEN -1 ELSE 1) * a.n * b.d, a.d * Abs(b.n)))
signum(a) == IF a.n > 0 THEN Decimal(1) ELSE IF a.n < 0 THEN Decimal(-1) ELSE ZERO
GreaterOrEqual(a, b) == a.n * b.d >= b.n * a.d
Negated(a) == [n |-> -a.n, d |-> a.d]

ExceedsMaximumPossibleValue == [e |-> "ExceedsMaximumPossibleValue"]
LessThanMinimumPossibleValue == [e |-> "LessThanMinimumPossibleValue"]
OkDecimal(a) == [kind |-> "Ok", value |-> a]
ok_or(option, error) ==
    IF option.kind = "Some" THEN OkDecimal(option.value) ELSE Err(error)

(***************************************************************************)
(* engine.rs: TryFrom<Node> and TryFrom<Expr> for Decimal.  The arms of    *)
(* the match, on operands already evaluated.                               *)
(***************************************************************************)
\* Addition reporting an overflow as a value below the minimum.
ExprAddLessThan(lhs, rhs) ==
    ok_or(checked_add(lhs, rhs), LessThanMinimumPossibleValue)

ExprAdd(lhs, rhs) ==
    ok_or(checked_add(lhs, rhs), ExceedsMaximumPossibleValue)

ExprSub(lhs, rhs) ==
    ok_or(checked_sub(lhs, rhs), LessThanMinimumPossibleValue)

\* Multiplication classifying every overflow as above the maximum.
ExprMulExceeds(lhs, rhs) ==
    ok_or(checked_mul(lhs, rhs), ExceedsMaximumPossibleValue)

ExprMul(lhs, rhs) ==
    ok_or(checked_mul(lhs, rhs),
          IF signum(lhs) = signum(rhs) THEN ExceedsMaximumPossibleValue
          ELSE LessThanMinimumPossibleValue)

\* Division classifying a failure by the signs of both operands.
ExprDivBySigns(lhs, rhs) ==
    ok_or(checked_div(lhs, rhs),
          IF signum(lhs) = signum(rhs) THEN ExceedsMaximumPossibleValue
          ELSE LessThanMinimumPossibleValue)

ExprDiv(lhs, rhs) ==
    ok_or(checked_div(lhs, rhs),
          IF GreaterOrEqual(lhs, ZERO) THEN ExceedsMaximumPossibleValue
          ELSE LessThanMinimumPossibleValue)

Operation(op, lhs, rhs) ==
    CASE op = "Add" -> ExprAdd(lhs, rhs)
      [] op = "Sub" -> ExprSub(lhs, rhs)
      [] op = "Mul" -> ExprMul(lhs, rhs)
      [] op = "Div" -> ExprDiv(lhs, rhs)

\* What a call of Decimal::try_from did: its Result, the nodes try_from was
\* called on, in the order of the calls, and the nodes whose own operation
\* was carried out.
Evaluated(res, visited, checks) == [res |-> res, visited |-> visited, checks |-> checks]

RECURSIVE try_from(_)
\* try_from evaluating both operands before looking at the left one's Result.
try_from_eager(node) ==
    CASE node.tag = "Value" -> Evaluated(OkDecimal(node.v), <<node>>, <<>>)
      [] node.tag = "Neg" ->
            LET value == try_from(node.node) IN
            IF value.res.kind # "Ok"
            THEN Evaluated(value.res, <<node>> \o value.visited, value.checks)
            ELSE Evaluated(OkDecimal(Negated(value.res.value)),
                           <<node>> \o value.visited, Append(value.checks, node))
      [] OTHER ->
            LET lhs == try_from(node.lhs)
                rhs == try_from(node.rhs)
            IN  IF rhs.res.kind # "Ok"
                THEN Evaluated(rhs.res, <<node>> \o lhs.visited \o rhs.visited,
                               lhs.checks \o rhs.checks)
                ELSE IF lhs.res.kind # "Ok"
                THEN Evaluated(lhs.res, <<node>> \o lhs.visited \o rhs.visited,
                               lhs.checks \o rhs.checks)
                ELSE Evaluated(Operation(node.tag, lhs.res.value, rhs.res.value),
                               <<node>> \o lhs.visited \o rhs.visited,
                               Append(lhs.checks \o rhs.checks, node))

try_from(node) ==
    CASE node.tag = "Value" -> Evaluated(OkDecimal(node.v), <<node>>, <<>>)
      [] node.tag = "Neg" ->
            LET value == try_from(node.node) IN
            IF value.res.kind # "Ok"
            THEN Evaluated(value.res, <<node>> \o value.visited, value.checks)
            ELSE Evaluated(OkDecimal(Negated(value.res.value)),
                           <<node>> \o value.visited, Append(value.checks, node))
      [] OTHER ->
            LET lhs == try_from(node.lhs) IN
            IF lhs.res.kind # "Ok"
            THEN Evaluated(lhs.res, <<node>> \o lhs.visited, lhs.checks)
            ELSE LET rhs == try_from(node.rhs) IN
                 IF rhs.res.kind # "Ok"
                 THEN Evaluated(rhs.res, <<node>> \o lhs.visited \o rhs.visited,
                                lhs.checks \o rhs.checks)
                 ELSE Evaluated(Operation(node.tag, lhs.res.value, rhs.res.value),
                                <<node>> \o lhs.visited \o rhs.visited,
                                Append(lhs.checks \o rhs.checks, node))

(***************************************************************************)
(* The trees evaluated: every tree of one operation over the values        *)
(* -MaxDecimal .. MaxDecimal, every tree of two operations, and every      *)
(* binary operation on two trees of one operation over the values          *)
(* -MaxDecimal, 1 and MaxDecimal.                                          *)
(***************************************************************************)
Leaf == {Value(Decimal(n)) : n \in -MaxDecimal..MaxDecimal}
Extreme == {Value(Decimal(n)) : n \in {-MaxDecimal, 1, MaxDecimal}}
ExprOver(L, R) ==
    {Add(l, r) : l \in L, r \in R} \cup {Sub(l, r) : l \in L, r \in R}
        \cup {Mul(l, r) : l \in L, r \in R} \cup {Div(l, r) : l \in L, r \in R}
NegOver(L) == {Neg(l) : l \in L}
OneOperation(L) == ExprOver(L, L) \cup NegOver(L)
Trees ==
    Leaf \cup OneOperation(Leaf)
        \cup NegOver(OneOperation(Leaf))
        \cup ExprOver(OneOperation(Leaf), Leaf)
        \cup ExprOver(Leaf, OneOperation(Leaf))
        \cup ExprOver(OneOperation(Extreme), OneOperation(Extreme))

(***************************************************************************)
(* The evaluation of one tree: root_node.try_into() of cli.rs.             *)
(***************************************************************************)
EvalInit ==
    /\ expr \in Trees
    /\ outcome = None
    /\ ParserIdle
    /\ BuilderIdle
    /\ TokenizerIdle

Evaluating(tag) ==
    /\ outcome = None
    /\ expr.tag = tag
    /\ outcome' = try_from(expr)
    /\ UNCHANGED <<expr, parserVars, builderVars, tokenizerVars>>

EvalValue == Evaluating("Value")
EvalAdd == Evaluating("Add")
EvalSub == Evaluating("Sub")
EvalMul == Evaluating("Mul")
EvalDiv == Evaluating("Div")
EvalNeg == Evaluating("Neg")

EvalNext ==
    \/ EvalValue
    \/ EvalAdd
    \/ EvalSub
    \/ EvalMul
    \/ EvalDiv
    \/ EvalNeg

EvalSpec == EvalInit /\ [][EvalNext]_vars


\* The tree has been evaluated, it is a binary expression, and both of its
\* operands evaluate to a Decimal: Left and Right.
Left == try_from(expr.lhs).res.value
Right == try_from(expr.rhs).res.value
Applied(tag) ==
    /\ outcome # None
    /\ expr.tag = tag
    /\ try_from(expr.lhs).res.kind = "Ok"
    /\ try_from(expr.rhs).res.kind = "Ok"

\* The exact fraction n / d (d > 0) against the range, and against a Result.
AboveMaximum(n, d) == n > MaxDecimal * d
BelowMinimum(n, d) == n < -MaxDecimal * d
Returned(res, n, d) == res.kind = "Ok" /\ res.value.n * d = n * res.value.d

\* C11: when the exact product of the operands of a Mul is outside the range
\* the evaluation fails, with ExceedsMaximumPossibleValue if the operands have
\* the same sign and LessThanMinimumPossibleValue if not; when it is in the
\* range the product is returned.
SameSign(a, b) == (a.n > 0 /\ b.n > 0) \/ (a.n < 0 /\ b.n < 0)

C11_MulSignLaw ==
    Applied("Mul") =>
        LET n == Left.n * Right.n
            d == Left.d * Right.d
        IN  IF AboveMaximum(n, d) \/ BelowMinimum(n, d)
            THEN outcome.res = Err(IF SameSign(Left, Right)
                                   THEN ExceedsMaximumPossibleValue
                                   ELSE LessThanMinimumPossibleValue)
            ELSE Returned(outcome.res, n, d)

\* -2 * 2 has failed with LessThanMinimumPossibleValue.
C11_Witness ==
    /\ expr = Mul(Value(Decimal(-2)), Value(Decimal(2)))
    /\ outcome # None
    /\ outcome.res = Err(LessThanMinimumPossibleValue)

\* C12: a division by zero fails with ExceedsMaximumPossibleValue when the
\* left operand is zero or positive and with LessThanMinimumPossibleValue when
\* it is negative.
C12_DivisionByZero ==
    (Applied("Div") /\ Right.n = 0) =>
        outcome.res = Err(IF Left.n >= 0 THEN ExceedsMaximumPossibleValue
                          ELSE LessThanMinimumPossibleValue)

\* 0 / 0 has failed with ExceedsMaximumPossibleValue.
C12_Witness ==
    /\ expr = Div(Value(ZERO), Value(ZERO))
    /\ outcome # None
    /\ outcome.res = Err(ExceedsMaximumPossibleValue)

\* C13: Add returns the exact sum when it is in the range and fails with
\* ExceedsMaximumPossibleValue when it is above the maximum; Sub returns the
\* exact difference when it is in the range and fails with
\* LessThanMinimumPossibleValue when it is below the minimum.
C13_AddSubOverflow ==
    /\ Applied("Add") =>
            LET n == Left.n * Right.d + Right.n * Left.d
                d == Left.d * Right.d
            IN  /\ AboveMaximum(n, d) => outcome.res = Err(ExceedsMaximumPossibleValue)
                /\ (~AboveMaximum(n, d) /\ ~BelowMinimum(n, d)) => Returned(outcome.res, n, d)
    /\ Applied("Sub") =>
            LET n == Left.n * Right.d - Right.n * Left.d
                d == Left.d * Right.d
            IN  /\ BelowMinimum(n, d) => outcome.res = Err(LessThanMinimumPossibleValue)
                /\ (~AboveMaximum(n, d) /\ ~BelowMinimum(n, d)) => Returned(outcome.res, n, d)

\* Decimal::MAX + 1 has failed with ExceedsMaximumPossibleValue.
C13_Witness ==
    /\ expr = Add(Value(Decimal(MaxDecimal)), Value(Decimal(1)))
    /\ outcome # None
    /\ outcome.res = Err(ExceedsMaximumPossibleValue)

\* C18: when the left operand of a binary expression fails, the evaluation
\* returns that error, after calling try_from on the expression and on the
\* nodes of the left operand only, and without carrying out its own
\* operation; when only the right operand fails, its error is returned; Neg
\* fails exactly when its operand fails, with the same error.
C18_ShortCircuit ==
    /\ (outcome # None /\ expr.tag \in Operator) =>
            LET lhs == try_from(expr.lhs)
                rhs == try_from(expr.rhs)
            IN  /\ lhs.res.kind = "Err" =>
                        /\ outcome.res = lhs.res
                        /\ outcome.visited = <<expr>> \o lhs.visited
                        /\ outcome.checks = lhs.checks
                /\ (lhs.res.kind = "Ok" /\ rhs.res.kind = "Err") =>
                        /\ outcome.res = rhs.res
                        /\ outcome.checks = lhs.checks \o rhs.checks
    /\ (outcome # None /\ expr.tag = "Neg") =>
            LET value == try_from(expr.node) IN
            /\ outcome.res.kind = "Err" <=> value.res.kind = "Err"
            /\ value.res.kind = "Err" => outcome.res = value.res

\* (MAX + 1) + (MIN - 1) has failed with the error of MAX + 1, and MIN - 1
\* has not been evaluated.
C18_Witness ==
    /\ expr = Add(Add(Value(Decimal(MaxDecimal)), Value(Decimal(1))),
                   Sub(Value(Decimal(-MaxDecimal)), Value(Decimal(1))))
    /\ outcome # None
    /\ outcome.res = Err(ExceedsMaximumPossibleValue)
    /\ outcome.visited = <<expr, expr.lhs, expr.lhs.lhs, expr.lhs.rhs>>
    /\ outcome.checks = <<expr.lhs>>

\* C19: when an Add or a Sub fails on evaluated operands, the error names the
\* bound the exact result violates: ExceedsMaximumPossibleValue only above the
\* maximum, LessThanMinimumPossibleValue only below the minimum.
NamesViolatedBound(n, d) ==
    /\ outcome.res = Err(ExceedsMaximumPossibleValue) => AboveMaximum(n, d)
    /\ outcome.res = Err(LessThanMinimumPossibleValue) => BelowMinimum(n, d)

C19_ErrorNamesViolatedBound ==
    /\ Applied("Add") =>
            NamesViolatedBound(Left.n * Right.d + Right.n * Left.d, Left.d * Right.d)
    /\ Applied("Sub") =>
            NamesViolatedBound(Left.n * Right.d - Right.n * Left.d, Left.d * Right.d)


(***************************************************************************)
(* tokenizer.rs.  A string is a sequence of characters; the lines are      *)
(* written with the six separators, a whitespace character and the         *)
(* characters 0, 1 and x of decimal and hexadecimal literals.              *)
(***************************************************************************)
Separators == {"+", "-", "*", "/", "(", ")"}
Whitespace == {" "}
Chars == Separators \cup Whitespace \cup {"0", "1", "x"}

is_separator(c) == c \in Separators
is_whitespace(c) == c \in Whitespace

\* str::split_inclusive(is_separator): chunk is the chunk being collected.
RECURSIVE split_inclusive(_, _)
\* A split that drops the separators: str::split.
split_exclusive(input, chunk) ==
    IF input = <<>> THEN (IF chunk = <<>> THEN <<>> ELSE <<chunk>>)
    ELSE IF is_separator(Head(input))
    THEN <<chunk>> \o split_inclusive(Tail(input), <<>>)
    ELSE split_inclusive(Tail(input), Append(chunk, Head(input)))

split_inclusive(input, chunk) ==
    IF input = <<>> THEN (IF chunk = <<>> THEN <<>> ELSE <<chunk>>)
    ELSE IF is_separator(Head(input))
    THEN <<Append(chunk, Head(input))>> \o split_inclusive(Tail(input), <<>>)
    ELSE split_inclusive(Tail(input), Append(chunk, Head(input)))

\* The closure of the first flat_map keeping the separator in the chunk.
split_separator_kept(chunk) ==
    <<chunk, <<>>>>

\* The closure of the first flat_map: [chunk, separator].
split_separator(chunk) ==
    IF chunk # <<>> /\ is_separator(chunk[Len(chunk)])
    THEN <<SubSeq(chunk, 1, Len(chunk) - 1), <<chunk[Len(chunk)]>>>>
    ELSE <<chunk, <<>>>>

\* str::split_whitespace: word is the word being collected.
RECURSIVE split_whitespace(_, _)
split_whitespace(input, word) ==
    IF input = <<>> THEN (IF word = <<>> THEN <<>> ELSE <<word>>)
    ELSE IF is_whitespace(Head(input))
    THEN (IF word = <<>> THEN <<>> ELSE <<word>>) \o split_whitespace(Tail(input), <<>>)
    ELSE split_whitespace(Tail(input), Append(word, Head(input)))

\* str::trim.
RECURSIVE trim(_)
trim(value) ==
    IF value # <<>> /\ is_whitespace(Head(value)) THEN trim(Tail(value))
    ELSE IF value # <<>> /\ is_whitespace(value[Len(value)])
    THEN trim(SubSeq(value, 1, Len(value) - 1))
    ELSE value

\* Decimal::from_str_radix on digits 0 and 1: Err on an empty string and on
\* any other character.
RECURSIVE Number(_, _)
Number(digits, radix) ==
    IF digits = <<>> THEN 0
    ELSE Number(SubSeq(digits, 1, Len(digits) - 1), radix) * radix
            + (IF digits[Len(digits)] = "1" THEN 1 ELSE 0)

from_str_radix(value, radix) ==
    IF value # <<>> /\ \A i \in 1..Len(value) : value[i] \in {"0", "1"}
    THEN [kind |-> "Ok", value |-> Number(value, radix)]
    ELSE [kind |-> "Err"]

parse_number(value) ==
    IF Len(value) >= 2 /\ SubSeq(value, 1, 2) = <<"0", "x">>
    THEN from_str_radix(SubSeq(value, 3, Len(value)), 16)
    ELSE from_str_radix(value, 10)

\* The closure of the last map.
TokenOf(chunk) ==
    CASE chunk = <<"+">> -> TokenOperator("Add")
      [] chunk = <<"-">> -> TokenOperator("Sub")
      [] chunk = <<"*">> -> TokenOperator("Mul")
      [] chunk = <<"/">> -> TokenOperator("Div")
      [] chunk = <<"(">> -> GroupStart
      [] chunk = <<")">> -> GroupEnd
      [] OTHER -> LET number == parse_number(chunk) IN
                  IF number.kind = "Ok" THEN TokenValue(number.value) ELSE ValueError

\* The two flat_maps, then map(trim), filter and map, over the chunks.
RECURSIVE SeparatorsSplit(_), WhitespaceSplit(_), Mapped(_)
SeparatorsSplit(chunks) ==
    IF chunks = <<>> THEN <<>>
    ELSE split_separator(Head(chunks)) \o SeparatorsSplit(Tail(chunks))

WhitespaceSplit(chunks) ==
    IF chunks = <<>> THEN <<>>
    ELSE split_whitespace(Head(chunks), <<>>) \o WhitespaceSplit(Tail(chunks))

Mapped(chunks) ==
    IF chunks = <<>> THEN <<>>
    ELSE (IF trim(Head(chunks)) = <<>> THEN <<>> ELSE <<TokenOf(trim(Head(chunks)))>>)
            \o Mapped(Tail(chunks))

tokenize(input) ==
    Mapped(WhitespaceSplit(SeparatorsSplit(split_inclusive(input, <<>>))))

(***************************************************************************)
(* The tokenizer on the lines of at most MaxInput characters, and on those *)
(* lines typed again with up to MaxPad more whitespace characters.         *)
(***************************************************************************)
Lines == UNION {[1..k -> Chars] : k \in 0..MaxInput}
Yielded(tokenized) == [kind |-> "Tokens", items |-> tokenized]
InsertAt(input, i, c) == SubSeq(input, 1, i) \o <<c>> \o SubSeq(input, i + 1, Len(input))

TokenizeInit ==
    /\ text \in Lines
    /\ yielded = None
    /\ ParserIdle
    /\ BuilderIdle
    /\ EngineIdle

\* The iterator of tokenize(text) is run to its end.
Tokenize ==
    /\ yielded = None
    /\ yielded' = Yielded(tokenize(text))
    /\ UNCHANGED <<text, parserVars, builderVars, engineVars>>

\* The next line read is the last one with one more whitespace character.
InsertWhitespace ==
    /\ yielded # None
    /\ Len(text) < MaxInput + MaxPad
    /\ \E i \in 0..Len(text), c \in Whitespace : text' = InsertAt(text, i, c)
    /\ yielded' = None
    /\ UNCHANGED <<parserVars, builderVars, engineVars>>

TokenizeNext ==
    \/ Tokenize
    \/ InsertWhitespace

TokenizeSpec == TokenizeInit /\ [][TokenizeNext]_vars


\* A line read from left to right, one character at a time: whitespace ends
\* the literal being read, a separator ends it and gives its own token, any
\* other character continues it.
SeparatorToken(c) ==
    CASE c = "+" -> TokenOperator("Add")
      [] c = "-" -> TokenOperator("Sub")
      [] c = "*" -> TokenOperator("Mul")
      [] c = "/" -> TokenOperator("Div")
      [] c = "(" -> GroupStart
      [] c = ")" -> GroupEnd

LiteralToken(literal) ==
    IF literal = <<>> THEN <<>>
    ELSE LET number == parse_number(literal) IN
         <<IF number.kind = "Ok" THEN TokenValue(number.value) ELSE ValueError>>

RECURSIVE Scan(_, _)
Scan(input, literal) ==
    IF input = <<>> THEN LiteralToken(literal)
    ELSE IF is_whitespace(Head(input))
    THEN LiteralToken(literal) \o Scan(Tail(input), <<>>)
    ELSE IF is_separator(Head(input))
    THEN LiteralToken(literal) \o <<SeparatorToken(Head(input))>> \o Scan(Tail(input), <<>>)
    ELSE Scan(Tail(input), Append(literal, Head(input)))

NotWhitespace(c) == ~is_whitespace(c)
RemoveWhitespace(input) == SelectSeq(input, NotWhitespace)

\* C14 as the specification states it: tokenize yields for every line the
\* tokens it yields for the line with all whitespace removed.
C14_WhitespaceNeverMatters ==
    yielded # None => yielded.items = tokenize(RemoveWhitespace(text))

\* Whitespace lies between two characters of literals.
IsLiteralChar(c) == ~is_whitespace(c) /\ ~is_separator(c)
SplitsLiteral(input) ==
    \E i, k \in 1..Len(input) :
        /\ i + 1 < k
        /\ IsLiteralChar(input[i])
        /\ IsLiteralChar(input[k])
        /\ \A j \in (i + 1)..(k - 1) : is_whitespace(input[j])

\* C14, amended: tokenize yields for a line the tokens it yields for the line
\* with all whitespace removed, provided no whitespace lies between two
\* characters of literals; there it separates two literals.
C14_WhitespaceBetweenTokens ==
    (yielded # None /\ ~SplitsLiteral(text)) =>
        yielded.items = tokenize(RemoveWhitespace(text))

\* "(1 )" has given the tokens of "(1)".
C14_Witness ==
    /\ text = <<"(", "1", " ", ")">>
    /\ yielded = Yielded(<<GroupStart, TokenValue(1), GroupEnd>>)

\* C15: the tokens of a line are those of the left-to-right reading, one per
\* separator character in the order of the line, and a line with one more
\* whitespace character at its start, at its end, or before or after a
\* separator gives the same tokens.
AtTokenBoundary(input, i) ==
    \/ i = 0
    \/ i = Len(input)
    \/ is_separator(input[i])
    \/ is_separator(input[i + 1])

CountSeparators(input) == Cardinality({i \in 1..Len(input) : is_separator(input[i])})
CountSeparatorTokens(tokenized) ==
    Cardinality({i \in 1..Len(tokenized) :
                    tokenized[i].tok \in {"Operator", "GroupStart", "GroupEnd"}})

C15_LeftToRight ==
    yielded # None =>
        /\ yielded.items = Scan(text, <<>>)
        /\ CountSeparatorTokens(yielded.items) = CountSeparators(text)

C15_BoundaryInsertion ==
    (/\ yielded # None
     /\ \E i \in 0..Len(text), c \in Whitespace :
            AtTokenBoundary(text, i) /\ text' = InsertAt(text, i, c)) =>
        tokenize(text') = yielded.items

C15_TokenBoundaries == []C15_LeftToRight /\ [][C15_BoundaryInsertion]_vars

\* "1+1", typed again as "1 +1", has given 1, Add, 1.
C15_Witness ==
    /\ text = <<"1", " ", "+", "1">>
    /\ yielded = Yielded(<<TokenValue(1), TokenOperator("Add"), TokenValue(1)>>)


\* C21: whenever parse returns a Node, the tokens of the input hold as many
\* GroupStart as GroupEnd, no prefix of them holds more GroupEnd than
\* GroupStart, and the iterator has yielded every token and the GroupEnd
\* chained after them; the iterator yields its items one at a time, in order.
CountToken(s, token) == Cardinality({i \in 1..Len(s) : s[i] = token})
Balanced(s) ==
    /\ CountToken(s, GroupStart) = CountToken(s, GroupEnd)
    /\ \A k \in 0..Len(s) :
          CountToken(SubSeq(s, 1, k), GroupEnd) <= CountToken(SubSeq(s, 1, k), GroupStart)

C21_SuccessIsBalanced ==
    (pc = "done" /\ result.kind = "Ok") =>
        /\ Balanced(tokens)
        /\ pos = Len(tokens) + 2

C21_ConsumedInOrder == pos' = pos \/ pos' = pos + 1

C21_BalancedAndConsumed == []C21_SuccessIsBalanced /\ [][C21_ConsumedInOrder]_vars

\* ((1)) + 2 has been parsed to Add(1, 2), all eight items consumed.
C21_Witness ==
    /\ pc = "done"
    /\ tokens = <<GroupStart, GroupStart, TokenValue(1), GroupEnd, GroupEnd,
                  TokenOperator("Add"), TokenValue(2)>>
    /\ result = Ok(Add(Value(1), Value(2)))
    /\ pos = 9

=============================================================================
